---- MODULE Spec2Model ----
(***************************************************************************)
(* Model of lib/odbc-connector.js: the transaction-guarded compound write  *)
(* operations (updateOrCreate, _replace, replaceOrCreate) and executeSQL,  *)
(* running against a driver whose calls succeed or fail                    *)
(* nondeterministically, over a one-column table with a primary key.       *)
(*                                                                         *)
(* Every driver call is asynchronous: an action of the model is the driver *)
(* delivering the outcome of the outstanding call together with the whole  *)
(* JavaScript callback that handles it (which may issue the next call).    *)
(***************************************************************************)
EXTENDS Integers, Sequences, FiniteSets, TLC

(* ---------------------------- bounds ----------------------------------- *)
MaxId == 2        \* identifiers are 1..MaxId
MaxVal == 1       \* values of the data column are 1..MaxVal
MaxCalls == 2     \* operations called in sequence
MaxLimit == 1     \* limit / offset found in the SQL text are 0..MaxLimit
MaxIndexes == 2   \* index statements of a model definition are 0..MaxIndexes
MaxArray == 2     \* values of between / inq / nin have 0..MaxArray elements
MaxName == 2      \* identifiers have 0..MaxName characters
MaxConnects == 4  \* connect is called at most MaxConnects times

Ids == 1..MaxId
Vals == 1..MaxVal

(* --------------------------- encodings --------------------------------- *)
Null == 0         \* SQL NULL in the data column
Absent == -1      \* no row with that identifier
Undef == -2       \* JavaScript undefined (property not supplied)
Untouched == -3   \* a transaction has not written that identifier

NoErr == [name |-> "none", status |-> 0, id |-> Undef]
DriverErr(n) == [name |-> n, status |-> 0, id |-> Undef]
NoMeta == [set |-> FALSE, isNewInstance |-> FALSE]
NoCb == [count |-> 0, err |-> NoErr, hasData |-> FALSE,
         data |-> [id |-> Undef, a |-> Undef], meta |-> NoMeta, rows |-> <<>>]

VARIABLES
  table,        \* committed rows: [Ids -> Vals \cup {Null, Absent}]
  txWrites,     \* uncommitted writes of the transaction the caller supplied
  ownWrites,    \* uncommitted writes of the transaction the operation opened
  conn,         \* the connection acquired by the latest call
  dataSource,   \* [connected, connecting] flags set by connect
  settings,     \* [valid, useLimitOffset] connector settings
  callNo,       \* number of operations called so far
  op,           \* the operation in progress
  owned,        \* TRUE when options.transaction was not supplied
  data,         \* the data argument (mutated by _replace)
  where,        \* the where argument of _replace
  sql,          \* executeSQL: [limit, offset] carried by the SQL text
  pc,           \* the outstanding driver call, or "idle" / "done" / "thrown"
  stepErr,      \* err captured by the closure waiting for rollback / close
  probe,        \* countData / selectData of the probe
  result,       \* (data, meta, rows) captured by the closure waiting for commit / close
  cb,           \* what the caller's callback received
  log,          \* driver calls issued and callback invocations of this call
  before,       \* rows seen through the operation's connection when it was called
  ddl,          \* [exists, indexes] of the model's table in the database and
                \* [tasks, task] of createTable: index statements, task running
  prev,         \* what the previous call was and what its callback received
  pure,         \* arguments and results of the pure functions
  procs,        \* two concurrent updateOrCreate calls and the row they write
  client        \* the open calls of connect that are outstanding

vars == <<table, txWrites, ownWrites, conn, dataSource, settings, callNo, op,
          owned, data, where, sql, pc, stepErr, probe, result, cb, log, before,
          ddl, prev, pure, procs, client>>

dbVars == <<table, txWrites, ownWrites>>
argVars_connect == <<callNo, op, owned, data, where, sql, before, settings,
                     ddl, prev, pure, procs>>
argVars == <<argVars_connect, client>>

(* ----------------------- the driver and the SQL ------------------------ *)
NoConn == [state |-> "none", txn |-> "none"]
NoWrites == [i \in Ids |-> Untouched]
NoData == <<Undef>>   \* countData / selectData before the probe has returned rows
NoResult == [data |-> [id |-> Undef, a |-> Undef], meta |-> NoMeta, rows |-> <<>>]

\* The connection the statements of the operation run on.
Connection == IF owned THEN "own" ELSE "tx"

\* Rows as seen through a connection at read-committed isolation: the
\* committed table overlaid with the connection's own uncommitted writes.
View(c) ==
  LET w == IF c = "own" THEN ownWrites ELSE txWrites
  IN  [i \in Ids |-> IF w[i] # Untouched THEN w[i] ELSE table[i]]

\* buildWhere: a row matches when every supplied property is equal.
Matches(w, i, row) ==
  /\ row # Absent
  /\ w.id = Undef \/ w.id = i
  /\ w.a = Undef \/ w.a = row

Matched(c, w) == {i \in Ids : Matches(w, i, View(c)[i])}

\* All orders in which the driver may return a set of rows.
Orders(S) ==
  {s \in [1..Cardinality(S) -> S] : \A i, j \in 1..Cardinality(S) : i # j => s[i] # s[j]}

\* The writes of connection c after a statement; the statement is atomic.
AfterDelete(c, w) ==
  [i \in Ids |-> IF i \in Matched(c, w) THEN Absent
                 ELSE IF c = "own" THEN ownWrites[i] ELSE txWrites[i]]

\* AfterUpdate with an UPDATE that leaves the matched rows as they are.
AfterUpdate_keepRow(c, w, d) ==
  [i \in Ids |-> IF i \in Matched(c, w) THEN View(c)[i]
                 ELSE IF c = "own" THEN ownWrites[i] ELSE txWrites[i]]

\* buildUpdate sets the columns of the supplied properties only; the data
\* column stands for the columns other than the identifier.
AfterUpdate(c, w, d) ==
  [i \in Ids |-> IF i \in Matched(c, w) /\ d.a # Undef THEN d.a
                 ELSE IF i \in Matched(c, w) THEN View(c)[i]
                 ELSE IF c = "own" THEN ownWrites[i] ELSE txWrites[i]]

\* buildInsert: a column without a supplied property is NULL.
InsertedRow(d) == IF d.a = Undef THEN Null ELSE d.a

AfterInsert(c, d) ==
  [i \in Ids |-> IF i = d.id THEN InsertedRow(d)
                 ELSE IF c = "own" THEN ownWrites[i] ELSE txWrites[i]]

\* The primary key rejects an INSERT of an identifier that is present.
InsertAllowed(c, d) == View(c)[d.id] = Absent

SetWrites(c, w) ==
  /\ table' = table
  /\ IF c = "own" THEN ownWrites' = w /\ txWrites' = txWrites
                  ELSE txWrites' = w /\ ownWrites' = ownWrites

\* Committing makes the writes of the owned transaction the committed rows.
Committed == [i \in Ids |-> IF ownWrites[i] # Untouched THEN ownWrites[i] ELSE table[i]]

Ev(c, e, i) == [conn |-> c, op |-> e, id |-> i]
Issue(l, c, e) == Append(l, Ev(c, e, 0))

\* The caller's callback invoked with (err) or (null, data, meta).
Callback(err, d, m) ==
  [count |-> cb.count + 1, err |-> err, hasData |-> err = NoErr,
   data |-> IF err = NoErr THEN d ELSE NoCb.data,
   meta |-> IF err = NoErr THEN m ELSE NoMeta, rows |-> <<>>]

\* A JavaScript value: its kind t, the form of its text or state, and the
\* number it carries.
V(t, f, n) == [t |-> t, form |-> f, n |-> n]
JsNull == V("null", "", 0)
\* A column value that is not wrapped in {DataType, Data}.
Plain(v) == [DataType |-> "none", Data |-> v]
NoClause == [text |-> "", limit |-> 0, offset |-> 0]

\* No function of the pure part has been applied.
NoPure == [of |-> "none", fn |-> "none", limit |-> 0, offset |-> 0, skip |-> 0,
           clause |-> NoClause,
           prop |-> [type |-> "none", db2 |-> "none", id |-> FALSE],
           val |-> JsNull, col |-> Plain(JsNull), back |-> JsNull,
           operator |-> "none", values |-> <<>>,
           stmt |-> [sql |-> <<>>, params |-> <<>>],
           name |-> <<>>, escaped |-> <<>>]

\* The table of the model exists and no createTable is running.
\* A Number property without any column settings; 0 is a precision or
\* scale that is not configured, "none" a data type that is not.
NoNumber == [dataType |-> "none", precision |-> 0, scale |-> 0,
             odbcType |-> "none", dataPrecision |-> 0, dataScale |-> 0]

NoDdl == [exists |-> TRUE, indexes |-> 0, tasks |-> 0, task |-> 0, p |-> NoNumber]

\* A concurrent call that has not been made.
NoProc == [pc |-> "idle", CNT |-> Undef, pending |-> "none",
           closing |-> FALSE, err |-> "none", reported |-> "none"]
\* The identifier has no row, nobody has called, no driver call has failed.
NoProcs == [rows |-> <<>>, faults |-> FALSE, p |-> <<NoProc, NoProc>>]

\* No connect has been called.
NoClient == [opens |-> <<>>, calls |-> 0, emitted |-> 0, last |-> 0, cb |-> "none"]

NoPrev == [op |-> "none", ok |-> FALSE, id |-> Undef, absent |-> FALSE,
           isNewInstance |-> FALSE, row |-> Absent]

\* The connector after construction, before any call.
ConstructedWith(s) ==
  /\ txWrites = NoWrites
  /\ ownWrites = NoWrites
  /\ conn = NoConn
  /\ dataSource = [connected |-> FALSE, connecting |-> FALSE]
  /\ settings = s
  /\ callNo = 0
  /\ op = "none"
  /\ owned = TRUE
  /\ data = NoCb.data
  /\ where = NoCb.data
  /\ sql = [limit |-> 0, offset |-> 0]
  /\ pc = "idle"
  /\ stepErr = NoErr
  /\ probe = NoData
  /\ result = NoResult
  /\ cb = NoCb
  /\ log = <<>>
  /\ prev = NoPrev
  /\ procs = NoProcs
  /\ client = NoClient

\* The connector with a complete connection string.
Constructed == ConstructedWith([valid |-> TRUE, useLimitOffset |-> FALSE])

Init ==
  /\ Constructed
  /\ table \in [Ids -> Vals \cup {Null, Absent}]
  /\ before = table
  /\ ddl = NoDdl
  /\ pure = NoPure

\* The synchronous part of a call, up to its first driver call: pc0 is the
\* call left outstanding and log0 what has been issued.
Start(o, own, d, w, q, pc0, log0) ==
  /\ pc = "idle"
  /\ callNo < MaxCalls
  /\ callNo' = callNo + 1
  /\ op' = o
  /\ owned' = own
  /\ data' = d
  /\ where' = w
  /\ sql' = q
  /\ pc' = pc0
  /\ log' = log0
  /\ UNCHANGED <<dbVars, conn, settings, stepErr, probe, result, cb, before,
                 prev, pure, procs, client>>

\* The caller's callback returns and the caller goes on to its next call.  A
\* caller that supplied a transaction commits it or rolls it back first; the
\* connection of the finished call is no longer followed.  p is what is
\* remembered of the finished call.
Returns(p) ==
  /\ pc = "done"
  /\ pc' = "idle"
  /\ table' \in {table, View("tx")}
  /\ before' = table'
  /\ txWrites' = NoWrites
  /\ ownWrites' = NoWrites
  /\ conn' = NoConn
  /\ op' = "none"
  /\ owned' = TRUE
  /\ data' = NoCb.data
  /\ where' = NoCb.data
  /\ sql' = [limit |-> 0, offset |-> 0]
  /\ stepErr' = NoErr
  /\ probe' = NoData
  /\ result' = NoResult
  /\ cb' = NoCb
  /\ log' = <<>>
  /\ ddl' = [ddl EXCEPT !.tasks = 0, !.task = 0, !.p = NoNumber]
  /\ prev' = p
  /\ UNCHANGED <<callNo, settings, dataSource, pure, procs, client>>

callback_returns == Returns(prev)

\* What a caller that goes on to a second call knows of the first: its
\* arguments, what the callback received, and the row it finds afterwards.
Outcome ==
  [op |-> op, ok |-> cb.err = NoErr, id |-> data.id,
   absent |-> IF data.id \in Ids THEN before[data.id] = Absent ELSE FALSE,
   isNewInstance |-> cb.meta.isNewInstance,
   row |-> IF data.id \in Ids THEN table'[data.id] ELSE Absent]

callback_recorded == Returns(Outcome)

\* A call of a compound operation.
StartCall(o, own, d, w, firstCall) ==
  /\ Start(o, own, d, w, [limit |-> 0, offset |-> 0], firstCall,
           Issue(<<>>, IF own THEN "own" ELSE "tx", firstCall))
  /\ UNCHANGED <<dataSource, ddl>>

(* --------------------------- updateOrCreate ---------------------------- *)
\* updateOrCreate_done with the rollback forgotten on the error path.
updateOrCreate_done_noRollback(err, d, m) ==
  IF ~owned \/ err # NoErr
  THEN /\ cb' = Callback(err, d, m)
       /\ log' = Issue(log, "caller", "callback")
       /\ pc' = "done"
       /\ UNCHANGED <<stepErr, result>>
  ELSE /\ result' = [data |-> d, meta |-> m, rows |-> <<>>]
       /\ log' = Issue(log, "own", "commit")
       /\ pc' = "commit"
       /\ UNCHANGED <<cb, stepErr>>

\* The callback handed to executeWithConnection (lines 502-508, 515-533).
updateOrCreate_done(err, d, m) ==
  IF ~owned
  THEN /\ cb' = Callback(err, d, m)
       /\ log' = Issue(log, "caller", "callback")
       /\ pc' = "done"
       /\ UNCHANGED <<stepErr, result>>
  ELSE IF err # NoErr
  THEN /\ stepErr' = err
       /\ log' = Issue(log, "own", "rollback")
       /\ pc' = "rollback"
       /\ UNCHANGED <<cb, result>>
  ELSE /\ result' = [data |-> d, meta |-> m, rows |-> <<>>]
       /\ log' = Issue(log, "own", "commit")
       /\ pc' = "commit"
       /\ UNCHANGED <<cb, stepErr>>

updateOrCreate ==
  \E own \in BOOLEAN, d \in [id : Ids, a : Vals \cup {Undef}] :
    StartCall("updateOrCreate", own, d, [id |-> d.id, a |-> Undef],
              IF own THEN "begin" ELSE "count")

\* beginTransaction's callback (lines 510-515).  On failure the driver may or
\* may not hand over a connection object.
updateOrCreate_begin_cb ==
  /\ op = "updateOrCreate" /\ pc = "begin"
  /\ \/ /\ conn' = [state |-> "open", txn |-> "active"]
        /\ log' = Issue(log, "own", "count")
        /\ pc' = "count"
        /\ UNCHANGED cb
     \/ /\ conn' = [state |-> "closing", txn |-> "none"]
        /\ cb' = Callback(DriverErr("begin"), data, NoMeta)
        /\ log' = Issue(Issue(log, "own", "close"), "caller", "callback")
        /\ pc' = "done"
     \/ /\ pc' = "thrown"      \* conn is undefined: conn.close throws
        /\ UNCHANGED <<conn, cb, log>>
  /\ UNCHANGED <<dbVars, argVars, dataSource, stepErr, probe, result>>

\* updateOrCreate_count_cb without the branch on the count: always INSERT.
updateOrCreate_count_cb_alwaysInsert ==
  /\ op = "updateOrCreate" /\ pc = "count"
  /\ \/ /\ updateOrCreate_done(DriverErr("count"), data, NoMeta)
        /\ UNCHANGED probe
     \/ /\ probe' = <<Cardinality(Matched(Connection, where))>>
        /\ log' = Append(log, Ev(Connection, "insert", data.id))
        /\ pc' = "insert"
        /\ UNCHANGED <<cb, stepErr, result>>
  /\ UNCHANGED <<dbVars, argVars, conn, dataSource>>

\* The callback of the SELECT COUNT(*) probe (lines 474-488).
updateOrCreate_count_cb ==
  /\ op = "updateOrCreate" /\ pc = "count"
  /\ \/ /\ updateOrCreate_done(DriverErr("count"), data, NoMeta)
        /\ UNCHANGED probe
     \/ LET CNT == Cardinality(Matched(Connection, where))
        IN  /\ probe' = <<CNT>>
            /\ IF CNT > 0
               THEN /\ log' = Issue(log, Connection, "update")
                    /\ pc' = "update"
               ELSE /\ log' = Append(log, Ev(Connection, "insert", data.id))
                    /\ pc' = "insert"
            /\ UNCHANGED <<cb, stepErr, result>>
  /\ UNCHANGED <<dbVars, argVars, conn, dataSource>>

\* updateOrCreate_stmt_cb sending a failed statement a second time.
updateOrCreate_stmt_cb_retry ==
  /\ op = "updateOrCreate" /\ pc \in {"update", "insert"}
  /\ \/ /\ IF Len(SelectSeq(log, LAMBDA e : e.op = pc)) = 1
           THEN /\ log' = Append(log, log[Len(log)])
                /\ UNCHANGED <<pc, cb, stepErr, result>>
           ELSE updateOrCreate_done(DriverErr(pc), data, NoMeta)
        /\ UNCHANGED dbVars
     \/ /\ pc = "insert" => InsertAllowed(Connection, data)
        /\ SetWrites(Connection, IF pc = "update"
                                 THEN AfterUpdate(Connection, where, data)
                                 ELSE AfterInsert(Connection, data))
        /\ updateOrCreate_done(NoErr, data,
                               [set |-> TRUE, isNewInstance |-> probe[1] = 0])
  /\ UNCHANGED <<argVars, conn, dataSource, probe>>

\* The callback of the UPDATE or INSERT (lines 488-496).
updateOrCreate_stmt_cb ==
  /\ op = "updateOrCreate" /\ pc \in {"update", "insert"}
  /\ \/ /\ updateOrCreate_done(DriverErr(pc), data, NoMeta)
        /\ UNCHANGED dbVars
     \/ /\ pc = "insert" => InsertAllowed(Connection, data)
        /\ SetWrites(Connection, IF pc = "update"
                                 THEN AfterUpdate(Connection, where, data)
                                 ELSE AfterInsert(Connection, data))
        /\ updateOrCreate_done(NoErr, data,
                               [set |-> TRUE, isNewInstance |-> probe[1] = 0])
  /\ UNCHANGED <<argVars, conn, dataSource, probe>>

\* The outcome of a rollback on the owned connection.
RolledBack(ok) ==
  /\ conn' = [state |-> "closing", txn |-> IF ok THEN "rolledback" ELSE "active"]
  /\ ownWrites' = IF ok THEN NoWrites ELSE ownWrites
  /\ UNCHANGED <<table, txWrites>>

\* The outcome of a commit on the owned connection; close tells whether the
\* callback requests the close.
CommitOutcome(ok, close) ==
  /\ conn' = [state |-> IF close THEN "closing" ELSE "open",
              txn |-> IF ok THEN "committed" ELSE "active"]
  /\ table' = IF ok THEN Committed ELSE table
  /\ ownWrites' = IF ok THEN NoWrites ELSE ownWrites
  /\ UNCHANGED txWrites

\* rollbackTransaction's callback (lines 517-520).
updateOrCreate_rollback_cb ==
  /\ op = "updateOrCreate" /\ pc = "rollback"
  /\ \E ok \in BOOLEAN : RolledBack(ok)
  /\ cb' = Callback(stepErr, data, NoMeta)
  /\ log' = Issue(Issue(log, "own", "close"), "caller", "callback")
  /\ pc' = "done"
  /\ UNCHANGED <<argVars, dataSource, stepErr, probe, result>>

\* commitTransaction's callback (lines 523-531).
updateOrCreate_commit_cb ==
  /\ op = "updateOrCreate" /\ pc = "commit"
  /\ \E ok \in BOOLEAN :
       /\ CommitOutcome(ok, TRUE)
       /\ cb' = Callback(IF ok THEN NoErr ELSE DriverErr("commit"),
                         result.data, result.meta)
  /\ log' = Issue(Issue(log, "own", "close"), "caller", "callback")
  /\ pc' = "done"
  /\ UNCHANGED <<argVars, dataSource, stepErr, probe, result>>

(* ------------------------------ _replace ------------------------------- *)
\* errorIdNotFoundForReplace (lines 1168-1174).
errorIdNotFoundForReplace(idValue) == [name |-> "notFound", status |-> 404, id |-> idValue]

\* The callback handed to executeWithConnection (lines 603-609, 615-632).
replace_done(err, d, m) ==
  IF ~owned
  THEN /\ cb' = Callback(err, d, m)
       /\ log' = Issue(log, "caller", "callback")
       /\ pc' = "done"
       /\ UNCHANGED <<stepErr, result>>
  ELSE IF err # NoErr
  THEN /\ stepErr' = err
       /\ log' = Issue(log, "own", "rollback")
       /\ pc' = "rollback"
       /\ UNCHANGED <<cb, result>>
  ELSE /\ result' = [data |-> d, meta |-> m, rows |-> <<>>]
       /\ log' = Issue(log, "own", "commit")
       /\ pc' = "commit"
       /\ UNCHANGED <<cb, stepErr>>

replace ==
  \E own \in BOOLEAN, d \in [id : Ids, a : Vals \cup {Undef}],
     w \in [id : Ids \cup {Undef}, a : Vals \cup {Undef}] :
    StartCall("_replace", own, d, w, IF own THEN "begin" ELSE "select")

\* beginTransaction's callback (lines 611-615): on failure a connection the
\* driver handed over is left as it is.
replace_begin_cb ==
  /\ op = "_replace" /\ pc = "begin"
  /\ \/ /\ conn' = [state |-> "open", txn |-> "active"]
        /\ log' = Issue(log, "own", "select")
        /\ pc' = "select"
        /\ UNCHANGED cb
     \/ /\ \E st \in {"open", "none"} :
             conn' = [state |-> st, txn |-> "none"]
        /\ cb' = Callback(DriverErr("begin"), data, NoMeta)
        /\ log' = Issue(log, "caller", "callback")
        /\ pc' = "done"
  /\ UNCHANGED <<dbVars, argVars, dataSource, stepErr, probe, result>>

\* replace_select_cb falling back to an INSERT when no row matches.
replace_select_cb_insertFallback ==
  /\ op = "_replace" /\ pc = "select"
  /\ \/ /\ replace_done(DriverErr("select"), data, NoMeta)
        /\ UNCHANGED probe
     \/ \E selectData \in Orders(Matched(Connection, where)) :
          /\ probe' = selectData
          /\ IF Len(selectData) > 0
             THEN /\ log' = Issue(log, Connection, "delete")
                  /\ pc' = "delete"
             ELSE /\ log' = Append(log, Ev(Connection, "insert", data.id))
                  /\ pc' = "insert"
          /\ UNCHANGED <<cb, stepErr, result>>
  /\ UNCHANGED <<dbVars, argVars, conn, dataSource>>

\* The callback of the SELECT probe (lines 568-577, 595-597).
replace_select_cb ==
  /\ op = "_replace" /\ pc = "select"
  /\ \/ /\ replace_done(DriverErr("select"), data, NoMeta)
        /\ UNCHANGED probe
     \/ \E selectData \in Orders(Matched(Connection, where)) :
          /\ probe' = selectData
          /\ IF Len(selectData) > 0
             THEN /\ log' = Issue(log, Connection, "delete")
                  /\ pc' = "delete"
                  /\ UNCHANGED <<cb, stepErr, result>>
             ELSE replace_done(errorIdNotFoundForReplace(where.id), data, NoMeta)
  /\ UNCHANGED <<dbVars, argVars, conn, dataSource>>

\* replace_delete_cb inserting the data with the identifier it came with.
replace_delete_cb_keepId ==
  /\ op = "_replace" /\ pc = "delete"
  /\ \/ /\ replace_done(DriverErr("delete"), data, NoMeta)
        /\ UNCHANGED dbVars
     \/ /\ SetWrites(Connection, AfterDelete(Connection, where))
        /\ log' = Append(log, Ev(Connection, "insert", data.id))
        /\ pc' = "insert"
        /\ UNCHANGED <<cb, stepErr, result>>
  /\ UNCHANGED <<argVars, conn, dataSource, probe>>

\* The callback of the DELETE (lines 577-586): data takes the identifier of
\* the first row of the probe before the INSERT is built.
replace_delete_cb ==
  /\ op = "_replace" /\ pc = "delete"
  /\ \/ /\ replace_done(DriverErr("delete"), data, NoMeta)
        /\ UNCHANGED <<dbVars, data>>
     \/ /\ SetWrites(Connection, AfterDelete(Connection, where))
        /\ data' = [data EXCEPT !.id = probe[1]]
        /\ log' = Append(log, Ev(Connection, "insert", probe[1]))
        /\ pc' = "insert"
        /\ UNCHANGED <<cb, stepErr, result>>
  /\ UNCHANGED <<callNo, op, owned, where, sql, before, settings, ddl, prev,
                 pure, procs, client, conn, dataSource, probe>>

\* The callback of the INSERT (lines 586-593).
replace_insert_cb ==
  /\ op = "_replace" /\ pc = "insert"
  /\ \/ /\ replace_done(DriverErr("insert"), data, NoMeta)
        /\ UNCHANGED dbVars
     \/ /\ InsertAllowed(Connection, data)
        /\ SetWrites(Connection, AfterInsert(Connection, data))
        /\ replace_done(NoErr, data,
                        [set |-> TRUE, isNewInstance |-> Len(probe) > 0])
  /\ UNCHANGED <<argVars, conn, dataSource, probe>>

\* replace_rollback_cb handing a failed rollback's error to the caller.
replace_rollback_cb_rollbackErr ==
  /\ op = "_replace" /\ pc = "rollback"
  /\ \E ok \in BOOLEAN :
       /\ RolledBack(ok)
       /\ cb' = Callback(IF ok THEN stepErr ELSE DriverErr("rollback"), data, NoMeta)
  /\ log' = Issue(Issue(log, "own", "close"), "caller", "callback")
  /\ pc' = "done"
  /\ UNCHANGED <<argVars, dataSource, stepErr, probe, result>>

\* rollbackTransaction's callback (lines 617-620).
replace_rollback_cb ==
  /\ op = "_replace" /\ pc = "rollback"
  /\ \E ok \in BOOLEAN : RolledBack(ok)
  /\ cb' = Callback(stepErr, data, NoMeta)
  /\ log' = Issue(Issue(log, "own", "close"), "caller", "callback")
  /\ pc' = "done"
  /\ UNCHANGED <<argVars, dataSource, stepErr, probe, result>>

\* commitTransaction's callback (lines 623-630): a failed commit returns
\* before the close.
replace_commit_cb ==
  /\ op = "_replace" /\ pc = "commit"
  /\ \/ /\ CommitOutcome(FALSE, FALSE)
        /\ cb' = Callback(DriverErr("commit"), result.data, result.meta)
        /\ log' = Issue(log, "caller", "callback")
     \/ /\ CommitOutcome(TRUE, TRUE)
        /\ cb' = Callback(NoErr, result.data, result.meta)
        /\ log' = Issue(Issue(log, "own", "close"), "caller", "callback")
  /\ pc' = "done"
  /\ UNCHANGED <<argVars, dataSource, stepErr, probe, result>>

(* --------------------------- replaceOrCreate --------------------------- *)
\* replaceOrCreate_done finalizing whatever connection it ran on.
replaceOrCreate_done_finalizeAny(err, d, m) ==
  IF err # NoErr
  THEN /\ stepErr' = err
       /\ log' = Issue(log, Connection, "rollback")
       /\ pc' = "rollback"
       /\ UNCHANGED <<cb, result>>
  ELSE /\ result' = [data |-> d, meta |-> m, rows |-> <<>>]
       /\ log' = Issue(log, Connection, "commit")
       /\ pc' = "commit"
       /\ UNCHANGED <<cb, stepErr>>

\* The callback handed to executeWithConnection (lines 712-718, 724-741).
replaceOrCreate_done(err, d, m) ==
  IF ~owned
  THEN /\ cb' = Callback(err, d, m)
       /\ log' = Issue(log, "caller", "callback")
       /\ pc' = "done"
       /\ UNCHANGED <<stepErr, result>>
  ELSE IF err # NoErr
  THEN /\ stepErr' = err
       /\ log' = Issue(log, "own", "rollback")
       /\ pc' = "rollback"
       /\ UNCHANGED <<cb, result>>
  ELSE /\ result' = [data |-> d, meta |-> m, rows |-> <<>>]
       /\ log' = Issue(log, "own", "commit")
       /\ pc' = "commit"
       /\ UNCHANGED <<cb, stepErr>>

replaceOrCreate ==
  \E own \in BOOLEAN, d \in [id : Ids, a : Vals \cup {Undef}] :
    StartCall("replaceOrCreate", own, d, [id |-> d.id, a |-> Undef],
              IF own THEN "begin" ELSE "select")

\* beginTransaction's callback (lines 720-724).
replaceOrCreate_begin_cb ==
  /\ op = "replaceOrCreate" /\ pc = "begin"
  /\ \/ /\ conn' = [state |-> "open", txn |-> "active"]
        /\ log' = Issue(log, "own", "select")
        /\ pc' = "select"
        /\ UNCHANGED cb
     \/ /\ \E st \in {"open", "none"} :
             conn' = [state |-> st, txn |-> "none"]
        /\ cb' = Callback(DriverErr("begin"), data, NoMeta)
        /\ log' = Issue(log, "caller", "callback")
        /\ pc' = "done"
  /\ UNCHANGED <<dbVars, argVars, dataSource, stepErr, probe, result>>

\* The callback of the SELECT probe (lines 668-677, 694-698).
replaceOrCreate_select_cb ==
  /\ op = "replaceOrCreate" /\ pc = "select"
  /\ \/ /\ replaceOrCreate_done(DriverErr("select"), data, NoMeta)
        /\ UNCHANGED probe
     \/ \E selectData \in Orders(Matched(Connection, where)) :
          /\ probe' = selectData
          /\ IF Len(selectData) > 0
             THEN /\ log' = Issue(log, Connection, "delete")
                  /\ pc' = "delete"
             ELSE /\ log' = Append(log, Ev(Connection, "insert", data.id))
                  /\ pc' = "insert"
          /\ UNCHANGED <<cb, stepErr, result>>
  /\ UNCHANGED <<dbVars, argVars, conn, dataSource>>

\* The callback of the DELETE (lines 677-685).
replaceOrCreate_delete_cb ==
  /\ op = "replaceOrCreate" /\ pc = "delete"
  /\ \/ /\ replaceOrCreate_done(DriverErr("delete"), data, NoMeta)
        /\ UNCHANGED dbVars
     \/ /\ SetWrites(Connection, AfterDelete(Connection, where))
        /\ log' = Append(log, Ev(Connection, "insert", data.id))
        /\ pc' = "insert"
        /\ UNCHANGED <<cb, stepErr, result>>
  /\ UNCHANGED <<argVars, conn, dataSource, probe>>

\* replaceOrCreate_insert_cb with the flag computed as _replace computes it.
replaceOrCreate_insert_cb_flag ==
  /\ op = "replaceOrCreate" /\ pc = "insert"
  /\ \/ /\ replaceOrCreate_done(DriverErr("insert"), data, NoMeta)
        /\ UNCHANGED dbVars
     \/ /\ InsertAllowed(Connection, data)
        /\ SetWrites(Connection, AfterInsert(Connection, data))
        /\ replaceOrCreate_done(NoErr, data,
                                [set |-> TRUE, isNewInstance |-> Len(probe) > 0])
  /\ UNCHANGED <<argVars, conn, dataSource, probe>>

\* The callback of the INSERT, after a DELETE or alone (lines 685-692,
\* 698-705).
replaceOrCreate_insert_cb ==
  /\ op = "replaceOrCreate" /\ pc = "insert"
  /\ \/ /\ replaceOrCreate_done(DriverErr("insert"), data, NoMeta)
        /\ UNCHANGED dbVars
     \/ /\ InsertAllowed(Connection, data)
        /\ SetWrites(Connection, AfterInsert(Connection, data))
        /\ replaceOrCreate_done(NoErr, data,
                                [set |-> TRUE, isNewInstance |-> Len(probe) = 0])
  /\ UNCHANGED <<argVars, conn, dataSource, probe>>

\* rollbackTransaction's callback (lines 726-729).
replaceOrCreate_rollback_cb ==
  /\ op = "replaceOrCreate" /\ pc = "rollback"
  /\ \E ok \in BOOLEAN : RolledBack(ok)
  /\ cb' = Callback(stepErr, data, NoMeta)
  /\ log' = Issue(Issue(log, "own", "close"), "caller", "callback")
  /\ pc' = "done"
  /\ UNCHANGED <<argVars, dataSource, stepErr, probe, result>>

\* commitTransaction's callback (lines 732-739): a failed commit returns
\* before the close.
replaceOrCreate_commit_cb ==
  /\ op = "replaceOrCreate" /\ pc = "commit"
  /\ \/ /\ CommitOutcome(FALSE, FALSE)
        /\ cb' = Callback(DriverErr("commit"), result.data, result.meta)
        /\ log' = Issue(log, "caller", "callback")
     \/ /\ CommitOutcome(TRUE, TRUE)
        /\ cb' = Callback(NoErr, result.data, result.meta)
        /\ log' = Issue(Issue(log, "own", "close"), "caller", "callback")
  /\ pc' = "done"
  /\ UNCHANGED <<argVars, dataSource, stepErr, probe, result>>

(* ------------------------------ executeSQL ----------------------------- *)
RECURSIVE Ascending(_)
Ascending(S) ==
  IF S = {} THEN <<>>
  ELSE LET m == CHOOSE x \in S : \A y \in S : x <= y
       IN  <<m>> \o Ascending(S \ {m})

\* Array.prototype.slice(start, end) on a sequence.
Slice(s, start, end) ==
  LET hi == IF end < Len(s) THEN end ELSE Len(s)
  IN  IF start >= hi THEN <<>> ELSE SubSeq(s, start + 1, hi)

\* What the database returns for a SELECT that carries LIMIT n / OFFSET m.
Paginate(rows, limit, offset) ==
  IF limit = 0 THEN Slice(rows, offset, Len(rows))
  ELSE Slice(rows, offset, offset + limit)

\* executeStatement, lines 225-246: limit and offset are taken out of the
\* SQL text unless useLimitOffset is set.
ParsedLimit == IF settings.useLimitOffset THEN 0 ELSE sql.limit
ParsedOffset == IF settings.useLimitOffset THEN 0 ELSE sql.offset

\* The rows the driver returns for the statement executeStatement sends.
DriverRows(c) ==
  LET all == Ascending({i \in Ids : View(c)[i] # Absent})
  IN  IF settings.useLimitOffset THEN Paginate(all, sql.limit, sql.offset) ELSE all

CallbackRows(err, rows) ==
  [count |-> cb.count + 1, err |-> err, hasData |-> err = NoErr,
   data |-> NoCb.data, meta |-> NoMeta, rows |-> rows]

\* The operations that run their statements through executeSQL: executeSQL
\* itself, and createTable / dropTable through execute (lines 779, 788, 814).
Executes == op \in {"executeSQL", "createTable", "dropTable"}

\* err.toString().includes('42704') (line 816): the driver reports that the
\* object does not exist.
Includes42704(err) == err.name = "42704"

\* The statement executeStatement sends can succeed: CREATE TABLE needs the
\* table to be absent, DROP TABLE and CREATE INDEX need it.
StatementAllowed ==
  CASE op = "createTable" -> IF ddl.task = 0 THEN ~ddl.exists ELSE ddl.exists
    [] op = "dropTable" -> ddl.exists
    [] OTHER -> TRUE

\* The errors conn.query can call back with.
QueryErrs ==
  IF op = "dropTable" /\ ~ddl.exists
  THEN {DriverErr("42704"), DriverErr("query")}
  ELSE {DriverErr("query")}

\* The database after the statement succeeded; DDL is not transactional.
AfterStatement ==
  CASE op = "createTable" /\ ddl.task = 0 ->
         [ddl EXCEPT !.exists = TRUE, !.indexes = 0]
    [] op = "createTable" /\ ddl.task > 0 -> [ddl EXCEPT !.indexes = @ + 1]
    [] op = "dropTable" -> [ddl EXCEPT !.exists = FALSE, !.indexes = 0]
    [] OTHER -> ddl

\* executeSQL up to its first driver call (lines 269-274) with connect
\* (lines 174-187): with invalid settings connect calls back without a
\* connection and conn.query throws.
executeSQL ==
  \E own \in BOOLEAN, q \in [limit : 0..MaxLimit, offset : 0..MaxLimit] :
    /\ IF ~own
       THEN /\ Start("executeSQL", own, NoCb.data, NoCb.data, q, "query",
                     Issue(<<>>, "tx", "query"))
            /\ UNCHANGED dataSource
       ELSE IF ~settings.valid
       THEN /\ Start("executeSQL", own, NoCb.data, NoCb.data, q, "thrown", <<>>)
            /\ UNCHANGED dataSource
       ELSE /\ Start("executeSQL", own, NoCb.data, NoCb.data, q, "open",
                     Issue(<<>>, "own", "open"))
            /\ dataSource' = [dataSource EXCEPT !.connecting = TRUE]
    /\ UNCHANGED ddl

\* executeSQL_callback with a series that goes on to the next task after a
\* task failed.
executeSQL_callback_continue(err, rows, d, ds) ==
  IF op = "createTable" /\ d.task < d.tasks
  THEN /\ ddl' = [d EXCEPT !.task = @ + 1]
       /\ dataSource' = [ds EXCEPT !.connecting = TRUE]
       /\ log' = Append(log, Ev("own", "open", d.task + 1))
       /\ pc' = "open"
       /\ UNCHANGED cb
  ELSE /\ cb' = CallbackRows(IF op = "dropTable" /\ Includes42704(err)
                             THEN NoErr ELSE err, rows)
       /\ log' = Issue(log, "caller", "callback")
       /\ pc' = "done"
       /\ ddl' = d
       /\ dataSource' = ds

\* executeSQL_callback with a dropTable that reports every error.
executeSQL_callback_everyError(err, rows, d, ds) ==
  IF op = "createTable" /\ err = NoErr /\ d.task < d.tasks
  THEN /\ ddl' = [d EXCEPT !.task = @ + 1]
       /\ dataSource' = [ds EXCEPT !.connecting = TRUE]
       /\ log' = Append(log, Ev("own", "open", d.task + 1))
       /\ pc' = "open"
       /\ UNCHANGED cb
  ELSE /\ cb' = CallbackRows(err, rows)
       /\ log' = Issue(log, "caller", "callback")
       /\ pc' = "done"
       /\ ddl' = d
       /\ dataSource' = ds

\* The callback executeSQL was called with, invoked with (err, data): the
\* caller's callback, or for createTable the callback of a task of
\* async.series (lines 776-794), which starts the next task when there is no
\* error and one is left, or for dropTable the function of lines 815-821.
\* d is the database and ds the flags of the data source at that point.
executeSQL_callback(err, rows, d, ds) ==
  IF op = "createTable" /\ err = NoErr /\ d.task < d.tasks
  THEN /\ ddl' = [d EXCEPT !.task = @ + 1]
       /\ dataSource' = [ds EXCEPT !.connecting = TRUE]
       /\ log' = Append(log, Ev("own", "open", d.task + 1))
       /\ pc' = "open"
       /\ UNCHANGED cb
  ELSE /\ cb' = CallbackRows(IF op = "dropTable" /\ Includes42704(err)
                             THEN NoErr ELSE err, rows)
       /\ log' = Issue(log, "caller", "callback")
       /\ pc' = "done"
       /\ ddl' = d
       /\ dataSource' = ds

\* The callback of client.open in connect (lines 187-197) and the callback
\* executeSQL gave to connect (lines 273-276).
executeSQL_connect_cb ==
  /\ Executes /\ pc = "open"
  /\ \/ /\ executeSQL_callback(DriverErr("open"), <<>>, ddl,
                               [connected |-> FALSE, connecting |-> FALSE])
        /\ UNCHANGED conn
     \/ /\ dataSource' = [connected |-> TRUE, connecting |-> FALSE]
        /\ conn' = [state |-> "open", txn |-> "none"]
        /\ log' = Append(log, Ev("own", "query", ddl.task))
        /\ pc' = "query"
        /\ UNCHANGED <<cb, ddl>>
  /\ UNCHANGED <<dbVars, callNo, op, owned, data, where, sql, before, settings,
                 prev, pure, procs, client, stepErr, probe, result>>

\* The cb executeSQL gave to executeStatement (lines 271, 276-280); d is the
\* database after the statement.
executeSQL_done(err, rows, d) ==
  IF ~owned
  THEN /\ executeSQL_callback(err, rows, d, dataSource)
       /\ UNCHANGED <<stepErr, result, conn>>
  ELSE /\ stepErr' = err
       /\ result' = [result EXCEPT !.rows = rows]
       /\ conn' = [conn EXCEPT !.state = "closing"]
       /\ log' = Append(log, Ev("own", "close", ddl.task))
       /\ pc' = "close"
       /\ ddl' = d
       /\ UNCHANGED <<cb, dataSource>>

\* The callback of conn.query in executeStatement (lines 255-266): on an
\* error there is no data, and slicing it throws.
executeSQL_query_cb ==
  /\ Executes /\ pc = "query"
  /\ \/ \E e \in QueryErrs :
          IF ParsedOffset # 0 \/ ParsedLimit # 0
          THEN /\ pc' = "thrown"
               /\ UNCHANGED <<cb, log, stepErr, result, conn, ddl, dataSource>>
          ELSE executeSQL_done(e, <<>>, ddl)
     \/ /\ StatementAllowed
        /\ IF ParsedOffset # 0 \/ ParsedLimit # 0
           THEN executeSQL_done(NoErr, Slice(DriverRows(Connection), ParsedOffset,
                                             ParsedOffset + ParsedLimit), ddl)
           ELSE executeSQL_done(NoErr, IF op = "executeSQL"
                                       THEN DriverRows(Connection) ELSE <<>>,
                                AfterStatement)
  /\ UNCHANGED <<dbVars, callNo, op, owned, data, where, sql, before, settings,
                 prev, pure, procs, client, probe>>

\* The callback of the close executeSQL waits for (lines 277-279).
executeSQL_close_cb ==
  /\ Executes /\ pc = "close"
  /\ \E ok \in BOOLEAN :
       conn' = [conn EXCEPT !.state = IF ok THEN "closed" ELSE "open"]
  /\ executeSQL_callback(stepErr, result.rows, ddl, dataSource)
  /\ UNCHANGED <<dbVars, callNo, op, owned, data, where, sql, before, settings,
                 prev, pure, procs, client, stepErr, probe, result>>

(* ------------------------ createTable, dropTable ----------------------- *)
\* The column settings of the Number property of the model: p.dataType,
\* p.precision, p.scale and those of p[self.name].
NumberSettings == {0, 2}
NumberProperties ==
  [dataType : {"none", "DECIMAL", "FLOAT"}, precision : NumberSettings,
   scale : NumberSettings, odbcType : {"none", "DECIMAL"},
   dataPrecision : NumberSettings, dataScale : NumberSettings]

\* convertNumberType that never throws.
convertNumberType_noThrow(p) ==
  [dt |-> IF p.odbcType # "none" THEN p.odbcType
          ELSE IF p.dataType # "none" THEN p.dataType ELSE "INTEGER",
   precision |-> 0, scale |-> 0, throws |-> FALSE]

\* convertNumberType (lines 1104-1135) with the default type INTEGER: the
\* column type with the precision and scale put into it, or the exception.
convertNumberType(p) ==
  LET fromOdbc == p.odbcType # "none"
      dt == IF fromOdbc THEN p.odbcType ELSE p.dataType
      precision == IF fromOdbc THEN p.dataPrecision ELSE p.precision
      scale == IF fromOdbc THEN p.dataScale ELSE p.scale
  IN  IF ~fromOdbc /\ p.dataType = "none"
      THEN [dt |-> "INTEGER", precision |-> 0, scale |-> 0, throws |-> FALSE]
      ELSE IF dt = "DECIMAL" /\ precision # 0 /\ scale # 0
      THEN [dt |-> dt, precision |-> precision, scale |-> scale, throws |-> FALSE]
      ELSE [dt |-> dt, precision |-> 0, scale |-> 0,
            throws |-> dt = "DECIMAL" /\ scale > 0]

\* createTable (lines 770-795) called without a transaction: the first task
\* of async.series sends CREATE TABLE through execute, which is executeSQL
\* (lines 269-274); n is the number of index statements buildIndexes gives
\* and p the Number property of the model.  buildColumnDefinitions (line
\* 775) throws what convertNumberType throws, before any task exists.
createTable ==
  \E n \in 0..MaxIndexes, p \in NumberProperties :
    /\ IF convertNumberType(p).throws \/ ~settings.valid
       THEN /\ Start("createTable", TRUE, NoCb.data, NoCb.data,
                     [limit |-> 0, offset |-> 0], "thrown", <<>>)
            /\ UNCHANGED dataSource
       ELSE /\ Start("createTable", TRUE, NoCb.data, NoCb.data,
                     [limit |-> 0, offset |-> 0], "open",
                     Issue(<<>>, "own", "open"))
            /\ dataSource' = [dataSource EXCEPT !.connecting = TRUE]
    /\ ddl' = [ddl EXCEPT !.tasks = n, !.task = 0, !.p = p]

\* dropTable (lines 803-814) called without a transaction: one DROP TABLE
\* through execute.
dropTable ==
  /\ IF ~settings.valid
     THEN /\ Start("dropTable", TRUE, NoCb.data, NoCb.data,
                   [limit |-> 0, offset |-> 0], "thrown", <<>>)
          /\ UNCHANGED dataSource
     ELSE /\ Start("dropTable", TRUE, NoCb.data, NoCb.data,
                   [limit |-> 0, offset |-> 0], "open",
                   Issue(<<>>, "own", "open"))
          /\ dataSource' = [dataSource EXCEPT !.connecting = TRUE]
  /\ UNCHANGED ddl

\* A close nobody waits for completes (its callback is function() {}).  A
\* close of a connection with an open transaction rolls the transaction back.
close_cb ==
  /\ conn.state = "closing"
  /\ pc # "close"
  /\ \/ /\ conn' = [state |-> "closed",
                    txn |-> IF conn.txn = "active" THEN "rolledback" ELSE conn.txn]
        /\ ownWrites' = NoWrites
     \/ /\ conn' = [conn EXCEPT !.state = "open"]
        /\ UNCHANGED ownWrites
  /\ UNCHANGED <<table, txWrites, argVars, dataSource, pc, stepErr, probe,
                 result, cb, log>>

Next ==
  \/ callback_returns
  \/ updateOrCreate
  \/ updateOrCreate_begin_cb
  \/ updateOrCreate_count_cb
  \/ updateOrCreate_stmt_cb
  \/ updateOrCreate_rollback_cb
  \/ updateOrCreate_commit_cb
  \/ replace
  \/ replace_begin_cb
  \/ replace_select_cb
  \/ replace_delete_cb
  \/ replace_insert_cb
  \/ replace_rollback_cb
  \/ replace_commit_cb
  \/ replaceOrCreate
  \/ replaceOrCreate_begin_cb
  \/ replaceOrCreate_select_cb
  \/ replaceOrCreate_delete_cb
  \/ replaceOrCreate_insert_cb
  \/ replaceOrCreate_rollback_cb
  \/ replaceOrCreate_commit_cb
  \/ executeSQL
  \/ executeSQL_connect_cb
  \/ executeSQL_query_cb
  \/ executeSQL_close_cb
  \/ close_cb

Spec == Init /\ [][Next]_vars

(* --------------------------- pure functions ---------------------------- *)
NotANumber == -4  \* a value that is no number and is truthy, such as 'abc'

\* isNaN(x): undefined and non-numeric text are not numbers.
IsNaN(x) == x \in {Undef, NotANumber}
\* JavaScript truthiness of a limit / offset.
Truthy(x) == x \notin {Undef, 0}

\* buildLimit without the isNaN normalisation.
buildLimit_noNaN(limit, offset) ==
  IF ~Truthy(limit) /\ ~Truthy(offset) THEN NoClause
  ELSE IF Truthy(limit) /\ ~Truthy(offset)
  THEN [text |-> "FETCH FIRST n ROWS ONLY", limit |-> limit, offset |-> 0]
  ELSE IF Truthy(offset) /\ ~Truthy(limit)
  THEN [text |-> "OFFSET m", limit |-> 0, offset |-> offset]
  ELSE [text |-> "LIMIT n OFFSET m", limit |-> limit, offset |-> offset]

\* buildLimit (lines 1147-1160); the clause is its text with the numbers
\* that were put into it.
buildLimit(limit, offset) ==
  LET l == IF IsNaN(limit) THEN 0 ELSE limit
      o == IF IsNaN(offset) THEN 0 ELSE offset
  IN  IF ~Truthy(l) /\ ~Truthy(o) THEN NoClause
      ELSE IF Truthy(l) /\ ~Truthy(o)
      THEN [text |-> "FETCH FIRST n ROWS ONLY", limit |-> l, offset |-> 0]
      ELSE IF Truthy(o) /\ ~Truthy(l)
      THEN [text |-> "OFFSET m", limit |-> 0, offset |-> o]
      ELSE [text |-> "LIMIT n OFFSET m", limit |-> l, offset |-> o]

\* applyPagination (lines 1162-1166): the clause merged into the statement.
applyPagination(filter) ==
  buildLimit(filter.limit,
             IF Truthy(filter.offset) THEN filter.offset ELSE filter.skip)

\* JSON.stringify of a Date or of an object.
JSON_stringify(v) ==
  CASE v.t = "date" /\ v.form = "valid" -> V("string", "quotedIso", v.n)
    [] v.t = "object" -> V("string", "json", v.n)

\* transformColumnValue (lines 330-371) for a property with a type name.
\* prop.id stands for prop.autoIncrement || prop.id.  The case for Date is
\* commented out in the source, so a Date takes the default branch.
transformColumnValue(prop, val) ==
  IF val.t = "null"
  THEN IF prop.id THEN V("sql", "DEFAULT", 0) ELSE JsNull
  ELSE CASE prop.type \in {"Number", "String"} -> val
         [] prop.type = "Boolean" -> V("number", "", val.n)
         [] prop.type = "Object" -> JSON_stringify(val)
         [] OTHER -> JSON_stringify(val)

\* toColumnValue (lines 306-321).
toColumnValue(prop, val) ==
  LET transformedValue == transformColumnValue(prop, val)
  IN  IF val.t = "null" \/ prop.db2 = "none" THEN Plain(transformedValue)
      ELSE IF prop.db2 \in {"BLOB", "CLOB"}
      THEN [DataType |-> prop.db2, Data |-> transformedValue]
      ELSE Plain(transformedValue)

\* Number(val), String(val), new Date(val), Boolean(val) and JSON.parse(val)
\* of a column value; a {DataType, Data} wrapper is an object.
JsNumber(c) ==
  CASE c.DataType # "none" -> V("number", "NaN", 0)
    [] c.Data.t = "number" -> c.Data
    [] c.Data.t = "boolean" -> V("number", "", c.Data.n)
    [] c.Data.t = "string" /\ c.Data.form = "digits" -> V("number", "", c.Data.n)
    [] OTHER -> V("number", "NaN", 0)

JsString(c) ==
  CASE c.DataType # "none" -> V("string", "[object Object]", 0)
    [] c.Data.t = "string" -> c.Data
    [] c.Data.t = "number" /\ c.Data.form = "" -> V("string", "digits", c.Data.n)
    [] OTHER -> V("string", "other", 0)

\* Only a number or ISO text gives a valid Date; the JSON text of a Date
\* starts with a quote and is not a date format.
JsDate(c) ==
  CASE c.DataType # "none" -> V("date", "invalid", 0)
    [] c.Data.t = "number" /\ c.Data.form = "" -> V("date", "valid", c.Data.n)
    [] c.Data.t = "string" /\ c.Data.form = "iso" -> V("date", "valid", c.Data.n)
    [] c.Data.t = "date" -> c.Data
    [] OTHER -> V("date", "invalid", 0)

JsBoolean(c) ==
  CASE c.DataType # "none" -> V("boolean", "", 1)
    [] c.Data.t = "number" ->
         V("boolean", "", IF c.Data.form = "" /\ c.Data.n # 0 THEN 1 ELSE 0)
    [] c.Data.t = "boolean" -> c.Data
    [] OTHER -> V("boolean", "", 1)

JSON_parse(c) ==
  CASE c.DataType # "none" -> V("thrown", "SyntaxError", 0)
    [] c.Data.t = "string" /\ c.Data.form = "json" -> V("object", "", c.Data.n)
    [] c.Data.t = "string" /\ c.Data.form = "quotedIso" -> V("string", "iso", c.Data.n)
    [] c.Data.t = "string" /\ c.Data.form = "digits" -> V("number", "", c.Data.n)
    [] OTHER -> V("thrown", "SyntaxError", 0)

\* fromColumnValue (lines 380-404).
fromColumnValue(prop, val) ==
  IF val.DataType = "none" /\ val.Data.t = "null" THEN val.Data
  ELSE CASE prop.type = "Number" -> JsNumber(val)
         [] prop.type = "String" -> JsString(val)
         [] prop.type = "Date" -> JsDate(val)
         [] prop.type = "Boolean" -> JsBoolean(val)
         [] OTHER -> JSON_parse(val)

\* The values of a property type.
ValuesOf(type) ==
  CASE type = "Number" -> {V("number", "", n) : n \in 0..MaxVal}
    [] type = "String" -> {V("string", f, n) : f \in {"text", "digits"}, n \in 0..MaxVal}
    [] type = "Boolean" -> {V("boolean", "", n) : n \in {0, 1}}
    [] type = "Date" -> {V("date", "valid", n) : n \in 0..MaxVal}
    [] OTHER -> {V("object", "", n) : n \in 0..MaxVal}

\* A ParameterizedSQL: its text as a sequence of pieces, a placeholder
\* being the piece "?", and its parameters.
ParameterizedSQL(text, params) == [sql |-> text, params |-> params]
PLACEHOLDER == "?"

\* A column value handed to buildExpression: a plain value v (Null for
\* null), or an instance of ParameterizedSQL.
PlainValue(v) == [compiled |-> FALSE, v |-> v, sql |-> <<>>, params |-> <<>>]
Compiled(stmt) == [compiled |-> TRUE, v |-> Null, sql |-> stmt.sql,
                   params |-> stmt.params]

\* ParameterizedSQL.append and ParameterizedSQL.join of loopback-connector,
\* as buildExpression uses them (lines 862, 924): the separator goes
\* between non-empty texts and the parameters are concatenated.
Append2(currentStmt, stmt, separator) ==
  ParameterizedSQL(
    currentStmt.sql
      \o (IF currentStmt.sql # <<>> /\ separator # "" THEN <<separator>> ELSE <<>>)
      \o stmt.sql,
    currentStmt.params \o stmt.params)

RECURSIVE Join(_, _)
Join(sqls, separator) ==
  IF sqls = <<>> THEN ParameterizedSQL(<<>>, <<>>)
  ELSE Append2(Join(SubSeq(sqls, 1, Len(sqls) - 1), separator),
               sqls[Len(sqls)], separator)

\* What lines 855-859 and 871-875 make of a value.
AsClause(columnValue) ==
  IF columnValue.compiled
  THEN ParameterizedSQL(columnValue.sql, columnValue.params)
  ELSE ParameterizedSQL(<<PLACEHOLDER>>, <<columnValue.v>>)

\* buildClause wrapping every element in a placeholder.
buildClause_wrap(columnValue, separator, grouping) ==
  LET values == [i \in DOMAIN columnValue |->
                   ParameterizedSQL(<<PLACEHOLDER>>, <<columnValue[i].v>>)]
      clause == Join(values, separator)
  IN  IF grouping
      THEN ParameterizedSQL(<<"(">> \o clause.sql \o <<")">>, clause.params)
      ELSE clause

\* buildClause (lines 852-867).
buildClause(columnValue, separator, grouping) ==
  LET values == [i \in DOMAIN columnValue |-> AsClause(columnValue[i])]
      clause == Join(values, separator)
  IN  IF grouping
      THEN ParameterizedSQL(<<"(">> \o clause.sql \o <<")">>, clause.params)
      ELSE clause

\* buildExpression (lines 849-926) for the operators other than regexp.
\* columnValue is a sequence for between / inq / nin and a value otherwise.
buildExpression(columnName, operator, columnValue) ==
  LET text(t) == ParameterizedSQL(<<columnName, t>>, <<>>)
  IN  CASE operator = "gt" -> Join(<<text(">"), AsClause(columnValue)>>, "")
        [] operator = "gte" -> Join(<<text(">="), AsClause(columnValue)>>, "")
        [] operator = "lt" -> Join(<<text("<"), AsClause(columnValue)>>, "")
        [] operator = "lte" -> Join(<<text("<="), AsClause(columnValue)>>, "")
        [] operator = "between" ->
             Join(<<text(" BETWEEN "), buildClause(columnValue, " AND ", FALSE)>>, "")
        [] operator = "inq" ->
             Join(<<text(" IN "), buildClause(columnValue, ",", TRUE)>>, "")
        [] operator = "nin" ->
             Join(<<text(" NOT IN "), buildClause(columnValue, ",", TRUE)>>, "")
        [] operator = "neq" ->
             IF ~columnValue.compiled /\ columnValue.v = Null
             THEN ParameterizedSQL(<<columnName, " IS NOT NULL">>, <<>>)
             ELSE Join(<<text("!="), AsClause(columnValue)>>, "")
        [] operator = "like" -> Join(<<text(" LIKE "), AsClause(columnValue)>>, "")
        [] operator = "nlike" ->
             Join(<<text(" NOT LIKE "), AsClause(columnValue)>>, "")

\* The double quote, and String.prototype.replace(/["]/g, '""').
DQ == "\""
RECURSIVE ReplaceQuotes(_)
ReplaceQuotes(name) ==
  IF name = <<>> THEN <<>>
  ELSE (IF name[1] = DQ THEN <<DQ, DQ>> ELSE <<name[1]>>)
       \o ReplaceQuotes(Tail(name))

\* escapeName (lines 207-212); a name is a sequence of characters.  The
\* result of name.replace is not assigned to anything.
escapeName(name) ==
  LET replaced == ReplaceQuotes(name)
  IN  IF name = <<>> THEN name ELSE <<DQ>> \o name \o <<DQ>>

\* The column values, operators and names the functions are applied to.
ArrayOperators == {"between", "inq", "nin"}
ValueOperators == {"gt", "gte", "lt", "lte", "neq", "like", "nlike"}
ColumnValues ==
  {PlainValue(v) : v \in Vals \cup {Null}}
  \cup {Compiled(ParameterizedSQL(<<"DEFAULT">>, <<>>)),
        Compiled(ParameterizedSQL(<<"?", "+", "?">>, <<1, 1>>))}
Arrays == UNION {[1..k -> ColumnValues] : k \in 0..MaxArray}
Expressions ==
  {[NoPure EXCEPT !.of = "expression", !.operator = o, !.values = <<v>>] :
     o \in ValueOperators, v \in ColumnValues}
  \cup {[NoPure EXCEPT !.of = "expression", !.operator = o, !.values = a] :
          o \in ArrayOperators, a \in Arrays}
Names ==
  {[NoPure EXCEPT !.of = "name", !.name = n] :
     n \in UNION {[1..k -> {"a", DQ}] : k \in 0..MaxName}}

\* The filters given to applyPagination and the (property, value) pairs
\* given to toColumnValue.
PageArgs == 0..MaxLimit \cup {Undef, NotANumber}
Filters ==
  {[NoPure EXCEPT !.of = "filter", !.limit = l, !.offset = o, !.skip = k] :
     l \in PageArgs, o \in PageArgs, k \in PageArgs}
Props ==
  [type : {"Number", "String", "Boolean", "Date", "Object"},
   db2 : {"none", "VARCHAR", "BLOB", "CLOB"}, id : BOOLEAN]
Columns ==
  UNION {{[NoPure EXCEPT !.of = "column", !.prop = p, !.val = v] :
            v \in ValuesOf(p.type) \cup {JsNull}} : p \in Props}

\* Everything but the pure part.
connectorVars == <<dbVars, conn, dataSource, callNo, op, owned, data, where,
                   sql, before, settings, ddl, prev, pc, stepErr, probe,
                   result, cb, log>>

InitPure ==
  /\ Constructed
  /\ table = [i \in Ids |-> Absent]
  /\ before = table
  /\ ddl = NoDdl
  /\ pure \in Filters \cup Columns \cup Expressions \cup Names

\* A call of applyPagination with a filter.
pagination ==
  /\ pure.of = "filter" /\ pure.fn = "none"
  /\ pure' = [pure EXCEPT !.fn = "applyPagination",
                          !.clause = applyPagination(pure)]
  /\ UNCHANGED <<connectorVars, procs, client>>

\* A value on its way into the database.
to_column ==
  /\ pure.of = "column" /\ pure.fn = "none"
  /\ pure' = [pure EXCEPT !.fn = "toColumnValue",
                          !.col = toColumnValue(pure.prop, pure.val)]
  /\ UNCHANGED <<connectorVars, procs, client>>

\* The column value on its way back to the model.
from_column ==
  /\ pure.fn = "toColumnValue"
  /\ pure' = [pure EXCEPT !.fn = "fromColumnValue",
                          !.back = fromColumnValue(pure.prop, pure.col)]
  /\ UNCHANGED <<connectorVars, procs, client>>

\* A comparison of a where clause is compiled; the column is "col".
expression ==
  /\ pure.of = "expression" /\ pure.fn = "none"
  /\ pure' = [pure EXCEPT
       !.fn = "buildExpression",
       !.stmt = buildExpression("col", pure.operator,
                                IF pure.operator \in ArrayOperators
                                THEN pure.values ELSE pure.values[1])]
  /\ UNCHANGED <<connectorVars, procs, client>>

\* An identifier is escaped.
escape ==
  /\ pure.of = "name" /\ pure.fn = "none"
  /\ pure' = [pure EXCEPT !.fn = "escapeName", !.escaped = escapeName(pure.name)]
  /\ UNCHANGED <<connectorVars, procs, client>>

NextPure ==
  \/ pagination
  \/ to_column
  \/ from_column
  \/ expression
  \/ escape

SpecPure == InitPure /\ [][NextPure]_vars

\* updateOrCreate called repeatedly, each call knowing the outcome of the one
\* before.
NextTwice ==
  \/ callback_recorded
  \/ updateOrCreate
  \/ updateOrCreate_begin_cb
  \/ updateOrCreate_count_cb
  \/ updateOrCreate_stmt_cb
  \/ updateOrCreate_rollback_cb
  \/ updateOrCreate_commit_cb
  \/ close_cb

SpecTwice == Init /\ [][NextTwice]_vars

\* The schema operations alone, from a database in which the table of the
\* model exists with some of its indexes, or does not exist.
InitDDL ==
  /\ Constructed
  /\ table = [i \in Ids |-> Absent]
  /\ before = table
  /\ ddl \in {[NoDdl EXCEPT !.exists = e, !.indexes = k] :
                e \in BOOLEAN, k \in 0..MaxIndexes}
  /\ ddl.exists \/ ddl.indexes = 0
  /\ pure = NoPure

NextDDL ==
  \/ callback_returns
  \/ createTable
  \/ dropTable
  \/ executeSQL_connect_cb
  \/ executeSQL_query_cb
  \/ executeSQL_close_cb

SpecDDL == InitDDL /\ [][NextDDL]_vars

(* ------------------- two updateOrCreate calls at once ------------------ *)
\* Two callers run updateOrCreate for one identifier that has no row, each
\* without options.transaction, so each on the connection beginTransaction
\* opens for it at READ_COMMITTED (line 510).  procs.rows are the committed
\* rows of the identifier, each row the number of the call that wrote it;
\* p[i].pending is the uncommitted write of call i, which holds the lock on the
\* key until its transaction ends.  The table has a primary key: an INSERT
\* waits while another transaction holds an uncommitted write of the key and
\* fails once a committed row has it.  procs.faults records that a driver call
\* failed for a reason other than the key.
Callers == 1..2
Other(i) == 3 - i

\* Caller i moves on; f tells whether a driver call failed on the way.
Moves(i, r, f) ==
  /\ procs' = [procs EXCEPT !.p[i] = r, !.faults = @ \/ f]
  /\ UNCHANGED <<connectorVars, pure, client>>

\* The call itself (lines 453-460, 510).
concurrent_updateOrCreate ==
  \E i \in Callers :
    /\ procs.p[i].pc = "idle"
    /\ Moves(i, [procs.p[i] EXCEPT !.pc = "begin"], FALSE)

\* beginTransaction's callback (lines 510-515).
concurrent_begin_cb ==
  \E i \in Callers :
    /\ procs.p[i].pc = "begin"
    /\ \/ Moves(i, [procs.p[i] EXCEPT !.pc = "count"], FALSE)
       \/ Moves(i, [procs.p[i] EXCEPT !.pc = "done", !.closing = TRUE,
                                      !.err = "driver", !.reported = "error"],
                TRUE)
       \/ Moves(i, [procs.p[i] EXCEPT !.pc = "thrown", !.err = "driver"], TRUE)

\* The callback of the SELECT COUNT(*) probe (lines 474-488): the probe counts
\* the committed rows.
concurrent_count_cb ==
  \E i \in Callers :
    /\ procs.p[i].pc = "count"
    /\ \/ Moves(i, [procs.p[i] EXCEPT !.pc = "rollback", !.err = "driver"], TRUE)
       \/ LET CNT == Len(procs.rows)
          IN  Moves(i, [procs.p[i] EXCEPT
                          !.CNT = CNT,
                          !.pc = IF CNT > 0 THEN "update" ELSE "insert"],
                    FALSE)

\* concurrent_stmt_cb without the return on an error of the statement.
concurrent_stmt_cb_ignoreErr ==
  \E i \in Callers :
    /\ procs.p[i].pc \in {"insert", "update"}
    /\ \/ Moves(i, [procs.p[i] EXCEPT !.pc = "commit", !.err = "driver"], TRUE)
       \/ /\ procs.p[Other(i)].pending = "none"
          /\ IF procs.p[i].pc = "insert" /\ Len(procs.rows) > 0
             THEN Moves(i, [procs.p[i] EXCEPT !.pc = "commit",
                                              !.err = "duplicate"], FALSE)
             ELSE Moves(i, [procs.p[i] EXCEPT !.pc = "commit",
                                              !.pending = procs.p[i].pc],
                        FALSE)

\* The callback of the UPDATE or INSERT (lines 488-496) and the callback
\* handed to executeWithConnection (lines 516-523).
concurrent_stmt_cb ==
  \E i \in Callers :
    /\ procs.p[i].pc \in {"insert", "update"}
    /\ \/ Moves(i, [procs.p[i] EXCEPT !.pc = "rollback", !.err = "driver"], TRUE)
       \/ /\ procs.p[Other(i)].pending = "none"
          /\ IF procs.p[i].pc = "insert" /\ Len(procs.rows) > 0
             THEN Moves(i, [procs.p[i] EXCEPT !.pc = "rollback",
                                              !.err = "duplicate"], FALSE)
             ELSE Moves(i, [procs.p[i] EXCEPT !.pc = "commit",
                                              !.pending = procs.p[i].pc],
                        FALSE)

\* rollbackTransaction's callback (lines 517-520).
concurrent_rollback_cb ==
  \E i \in Callers, ok \in BOOLEAN :
    /\ procs.p[i].pc = "rollback"
    /\ Moves(i, [procs.p[i] EXCEPT
                   !.pc = "done", !.closing = TRUE, !.reported = "error",
                   !.pending = IF ok THEN "none" ELSE @],
             ~ok)

\* The committed rows once caller i has committed its write.
RowsAfter(i) ==
  CASE procs.p[i].pending = "insert" -> Append(procs.rows, i)
    [] procs.p[i].pending = "update" -> [k \in DOMAIN procs.rows |-> i]
    [] OTHER -> procs.rows

\* commitTransaction's callback (lines 523-531); meta.isNewInstance is the
\* probe's count compared with 0 (line 494).
concurrent_commit_cb ==
  \E i \in Callers :
    /\ procs.p[i].pc = "commit"
    /\ \/ /\ procs' = [procs EXCEPT
                !.rows = RowsAfter(i),
                !.p[i] = [@ EXCEPT !.pc = "done", !.closing = TRUE,
                                   !.pending = "none",
                                   !.reported = IF procs.p[i].CNT = 0
                                                THEN "new" ELSE "old"]]
          /\ UNCHANGED <<connectorVars, pure, client>>
       \/ Moves(i, [procs.p[i] EXCEPT !.pc = "done", !.closing = TRUE,
                                      !.err = "driver", !.reported = "error"],
                TRUE)

\* The close the code requests without waiting for it (lines 512, 518, 525)
\* completes: the connection's uncommitted work is gone.
concurrent_close_cb ==
  \E i \in Callers :
    /\ procs.p[i].closing
    /\ Moves(i, [procs.p[i] EXCEPT !.closing = FALSE, !.pending = "none"], FALSE)

NextConcurrent ==
  \/ concurrent_updateOrCreate
  \/ concurrent_begin_cb
  \/ concurrent_count_cb
  \/ concurrent_stmt_cb
  \/ concurrent_rollback_cb
  \/ concurrent_commit_cb
  \/ concurrent_close_cb

\* The identifier has no row and neither caller has called.
InitConcurrent ==
  /\ Constructed
  /\ table = [i \in Ids |-> Absent]
  /\ before = table
  /\ ddl = NoDdl
  /\ pure = NoPure

SpecConcurrent == InitConcurrent /\ [][NextConcurrent]_vars

(* -------------------------------- connect ------------------------------ *)
\* client.opens has one entry per client.open call that connect has issued:
\* "pending" while the call is outstanding, then "ok" or "err"; client.last is
\* the call whose callback ran last, client.cb what connect's callback was
\* given, client.emitted the number of 'connected' events.

\* connect (lines 174-187): without a usable connection string it calls back
\* with no arguments and touches nothing; otherwise it raises connecting and
\* issues the open.
connect ==
  /\ client.calls < MaxConnects
  /\ IF ~settings.valid
     THEN /\ client' = [client EXCEPT !.calls = @ + 1, !.cb = "noargs"]
          /\ UNCHANGED dataSource
     ELSE /\ dataSource' = [dataSource EXCEPT !.connecting = TRUE]
          /\ client' = [client EXCEPT !.calls = @ + 1,
                                      !.opens = Append(@, "pending")]
  /\ UNCHANGED <<dbVars, conn, argVars_connect, pc, stepErr, probe, result,
                 cb, log>>

\* The callback of client.open (lines 187-197), for any outstanding open.
connect_open_cb ==
  \E k \in DOMAIN client.opens, ok \in BOOLEAN :
    /\ client.opens[k] = "pending"
    /\ dataSource' = [connected |-> ok, connecting |-> FALSE]
    /\ client' = [client EXCEPT
                    !.opens[k] = IF ok THEN "ok" ELSE "err",
                    !.emitted = IF ok THEN @ + 1 ELSE @,
                    !.last = k,
                    !.cb = IF ok THEN "con" ELSE "err"]
    /\ UNCHANGED <<dbVars, conn, argVars_connect, pc, stepErr, probe, result,
                   cb, log>>

\* The connector with or without a usable connection string.
InitConnect ==
  /\ \E v \in BOOLEAN :
       ConstructedWith([valid |-> v, useLimitOffset |-> FALSE])
  /\ table = [i \in Ids |-> Absent]
  /\ before = table
  /\ ddl = NoDdl
  /\ pure = NoPure

NextConnect ==
  \/ connect
  \/ connect_open_cb

SpecConnect == InitConnect /\ [][NextConnect]_vars

(* ------------------------- reading the state --------------------------- *)
Compound == op \in {"updateOrCreate", "_replace", "replaceOrCreate"}

\* The operation opened its own transaction and beginTransaction succeeded.
OwnsTransaction == Compound /\ owned /\ conn.txn # "none"

CallbackRan == cb.count > 0

\* Number of times a driver call (or the callback) was issued in this call.
N(e) == Cardinality({i \in DOMAIN log : log[i].op = e})

\* Position in the log of the first issue of e (0 when it was not issued).
Pos(e) ==
  IF N(e) = 0 THEN 0
  ELSE CHOOSE i \in DOMAIN log :
         log[i].op = e /\ \A j \in DOMAIN log : log[j].op = e => i <= j

IsQuery(e) == e.op \in {"count", "select", "update", "delete", "insert", "query"}
OpOf(l) == [i \in DOMAIN l |-> l[i].op]
\* The SQL statements of this call, in the order they were issued.
Statements == OpOf(SelectSeq(log, IsQuery))

\* The rows the caller finds afterwards: the committed table, or for a
\* caller-supplied transaction the rows seen through that transaction.
Stored == IF owned THEN table ELSE View("tx")

\* The row an INSERT of the supplied data stores.
RowOfData == IF data.a = Undef THEN Null ELSE data.a

(* ------------------------------- claims -------------------------------- *)
\* C1: once beginTransaction has succeeded for an operation that owns its
\* connection, at most one of commitTransaction / rollbackTransaction is ever
\* issued, and when the caller's callback has run exactly one of them was
\* issued, on the owned connection, before the callback.
C1_ExactlyOneFinalizer ==
  OwnsTransaction =>
    /\ N("commit") + N("rollback") <= 1
    /\ \A i \in DOMAIN log :
         log[i].op \in {"commit", "rollback"} => log[i].conn = "own"
    /\ CallbackRan =>
         /\ N("commit") + N("rollback") = 1
         /\ Pos("commit") + Pos("rollback") < Pos("callback")

\* C1 witness: an owned replaceOrCreate whose commit failed has called back.
C1_Witness ==
  /\ op = "replaceOrCreate" /\ OwnsTransaction /\ CallbackRan
  /\ cb.err = DriverErr("commit")
  /\ N("commit") = 1 /\ N("rollback") = 0

\* C2 (as claimed): when all statements of an owning operation succeeded,
\* commit is issued and then close is issued whatever the commit's outcome,
\* and a failed commit gives the caller the commit error and no result.
C2_CloseAfterCommit ==
  (OwnsTransaction /\ CallbackRan /\ N("commit") = 1) =>
    /\ N("close") = 1
    /\ Pos("commit") < Pos("close")
    /\ conn.txn # "committed" => cb.err = DriverErr("commit") /\ ~cb.hasData

\* C3: when a step of an owning operation fails (no commit was issued by the
\* time the callback runs), the operation issued rollback, then close, then
\* called back once with exactly the error of the failing step, whether or
\* not the rollback succeeded.
FailingStep == log[Pos("rollback") - 1].op
ExpectedErr ==
  IF op = "_replace" /\ FailingStep = "select" /\ probe # NoData
  THEN [name |-> "notFound", status |-> 404, id |-> where.id]
  ELSE DriverErr(FailingStep)

C3_RollbackCloseThenError ==
  (OwnsTransaction /\ CallbackRan /\ N("commit") = 0) =>
    /\ N("rollback") = 1 /\ N("close") = 1
    /\ Len(log) >= 4
    /\ log[Len(log) - 2] = Ev("own", "rollback", 0)
    /\ log[Len(log) - 1] = Ev("own", "close", 0)
    /\ log[Len(log)] = Ev("caller", "callback", 0)
    /\ IsQuery(log[Len(log) - 3])
    /\ cb.count = 1
    /\ cb.err = ExpectedErr
    /\ ~cb.hasData

\* C3 witness: _replace found no row, the rollback itself failed, and the
\* caller got the not-found error.
C3_Witness ==
  /\ op = "_replace" /\ OwnsTransaction /\ CallbackRan
  /\ cb.err.name = "notFound"
  /\ conn.txn = "active" /\ conn.state = "closing"

\* C4 (as claimed): when the callback of an owning operation has run, the
\* connection is committed-and-closed or rolled-back-and-closed.
C4_TerminalBeforeCallback ==
  (OwnsTransaction /\ CallbackRan) =>
    /\ conn.state = "closed"
    /\ conn.txn \in {"committed", "rolledback"}

\* C5: with a caller-supplied transaction every driver call of the operation
\* is a query on the caller's connection; no open, beginTransaction,
\* commitTransaction, rollbackTransaction or close is issued, and no
\* connection is acquired.
C5_CallerTransactionUntouched ==
  (op # "none" /\ ~owned) =>
    /\ \A i \in DOMAIN log :
         \/ log[i].conn = "tx" /\ IsQuery(log[i])
         \/ log[i].conn = "caller" /\ log[i].op = "callback"
    /\ conn = NoConn

\* C5 witness: replaceOrCreate on the caller's transaction failed at the
\* INSERT after its DELETE and called back.
C5_Witness ==
  /\ op = "replaceOrCreate" /\ ~owned /\ CallbackRan
  /\ cb.err = DriverErr("insert")
  /\ N("delete") = 1

\* C6: updateOrCreate's first statement is the COUNT probe by primary key;
\* a count > 0 is followed by exactly one UPDATE and no INSERT, a count of 0
\* by exactly one INSERT and no UPDATE, and a successful call reports
\* isNewInstance = TRUE exactly when the count was 0.
C6_UpdateOrCreateBranch ==
  op = "updateOrCreate" =>
    /\ Statements # <<>> => Statements[1] = "count"
    /\ probe = NoData => Len(Statements) <= 1
    /\ probe # NoData =>
         /\ probe[1] = Cardinality({i \in Ids : i = data.id /\ before[i] # Absent})
         /\ probe[1] > 0 => Statements = <<"count", "update">>
         /\ probe[1] = 0 =>
              /\ Statements = <<"count", "insert">>
              /\ log[Pos("insert")] = Ev(Connection, "insert", data.id)
    /\ (CallbackRan /\ cb.err = NoErr) =>
         /\ probe # NoData
         /\ cb.meta.set
         /\ cb.meta.isNewInstance <=> (probe[1] = 0)
         /\ cb.data = data

\* C6 witness: a successful updateOrCreate of an existing identifier.
C6_Witness ==
  /\ op = "updateOrCreate" /\ CallbackRan /\ cb.err = NoErr
  /\ before[data.id] # Absent
  /\ N("update") = 1
  /\ ~cb.meta.isNewInstance

\* C7: a _replace whose where clause matches no row (and whose probe
\* returned) fails with the not-found error of status 404, issues neither a
\* DELETE nor an INSERT, and leaves the rows as they were before the call.
NoRowMatched == {i \in Ids : Matches(where, i, before[i])} = {}

C8_ReplaceOrder ==
  (op = "_replace" /\ CallbackRan /\ cb.err = NoErr) =>
    /\ Statements = <<"select", "delete", "insert">>
    /\ probe # NoData /\ Len(probe) > 0
    /\ Matches(where, probe[1], before[probe[1]])
    /\ log[Pos("insert")] = Ev(Connection, "insert", probe[1])
    /\ Stored[probe[1]] = RowOfData
    /\ cb.data = [id |-> probe[1], a |-> data.a]

\* C8 witness: a successful _replace whose where clause matched two rows.
C8_Witness ==
  /\ op = "_replace" /\ owned /\ CallbackRan /\ cb.err = NoErr
  /\ probe # NoData /\ Len(probe) = 2

\* C9: a successful replaceOrCreate of an existing identifier issued SELECT,
\* DELETE, INSERT and reports isNewInstance = FALSE; of a missing identifier
\* it issued SELECT, INSERT and reports isNewInstance = TRUE; in both cases
\* the stored row is the supplied data alone (a property not supplied is
\* NULL, not the old value) and the other rows are untouched.
C9_ReplaceOrCreate ==
  (op = "replaceOrCreate" /\ CallbackRan /\ cb.err = NoErr) =>
    /\ cb.meta.set
    /\ IF before[data.id] # Absent
       THEN Statements = <<"select", "delete", "insert">> /\ ~cb.meta.isNewInstance
       ELSE Statements = <<"select", "insert">> /\ cb.meta.isNewInstance
    /\ Stored[data.id] = RowOfData
    /\ \A i \in Ids \ {data.id} : Stored[i] = before[i]

\* C9 witness: the old row had a value, the data supplies none, and the
\* stored row is NULL afterwards.
C9_Witness ==
  /\ op = "replaceOrCreate" /\ owned /\ CallbackRan /\ cb.err = NoErr
  /\ before[data.id] \in Vals
  /\ data.a = Undef
  /\ table[data.id] = Null

\* C10 (as claimed): when the INSERT of an owning operation failed, then once
\* the operation has called back the table equals its state before the call
\* and the connection is closed.
C10_InsertFailureAtomic ==
  (OwnsTransaction /\ CallbackRan /\ N("commit") = 0
     /\ Statements # <<>> /\ Statements[Len(Statements)] = "insert") =>
    /\ table = before
    /\ conn.state = "closed"

\* The call has come to rest: no driver call it waits for is outstanding.
AtRest == op # "none" /\ pc \in {"done", "thrown"}

\* C11 (as claimed): every call of executeSQL, updateOrCreate, _replace,
\* replaceOrCreate, createTable and dropTable invokes the caller's callback
\* exactly once, with an error or with a success result and never both,
\* whatever the driver calls do.
C11_CallbackExactlyOnce ==
  /\ cb.count <= 1
  /\ CallbackRan => (cb.err # NoErr) # cb.hasData
  /\ AtRest => cb.count = 1

\* C12 (as claimed): no exception is thrown from inside a driver callback,
\* and the error of a failed driver call that the operation captured is the
\* error the caller's callback receives.
C12_ErrorsDelivered ==
  /\ pc # "thrown"
  /\ (CallbackRan /\ stepErr # NoErr) => cb.err = stepErr

\* Acquisition was the only thing the call got to: connect in executeSQL or
\* beginTransaction in a compound operation returned, and no statement ran.
AcquisitionFailed ==
  /\ AtRest /\ owned /\ Statements = <<>>
  /\ N("begin") + N("open") = 1

\* C13 (as claimed): when connect (executeSQL) or beginTransaction
\* (updateOrCreate, _replace, replaceOrCreate) fails, the caller's callback
\* gets that error at once and no other driver call is issued: no query, no
\* commit, no rollback, no close.
C13_AcquisitionFailureStops ==
  AcquisitionFailed =>
    /\ cb.count = 1
    /\ cb.err \in {DriverErr("begin"), DriverErr("open")}
    /\ OpOf(log) \in {<<"begin", "callback">>, <<"open", "callback">>}

\* C14 (as claimed): an executeSQL without a transaction context that got to
\* run its statement has opened one connection, run the statement on it and
\* waited for its close before calling back once, with the query's error or
\* rows, whether the query or the close succeeded or not.
C14_CloseBeforeCallback ==
  (op = "executeSQL" /\ owned /\ N("query") = 1 /\ AtRest) =>
    /\ OpOf(log) = <<"open", "query", "close", "callback">>
    /\ \A i \in 1..3 : log[i].conn = "own"
    /\ cb.count = 1
    /\ cb.err = stepErr
    /\ cb.rows = result.rows

\* The driver call found at position i of the log of a series of statements
\* that each open a connection, run and close it.
CallAt(i) == CASE i % 3 = 1 -> "open" [] i % 3 = 2 -> "query" [] OTHER -> "close"

\* C15: createTable issues CREATE TABLE and then the index statements one at
\* a time, each on its own connection and only after the previous statement
\* was closed; when the callback runs with an error nothing was issued after
\* the failing call and what had been executed remains (the table with the
\* indexes created so far); without an error everything was executed.
C15_CreateTableInSeries ==
  op = "createTable" =>
    /\ \A i \in DOMAIN log :
         log[i].op # "callback" => log[i] = Ev("own", CallAt(i), (i - 1) \div 3)
    /\ N("query") <= ddl.tasks + 1
    /\ CallbackRan =>
         /\ cb.count = 1
         /\ log[Len(log)].op = "callback"
         /\ cb.err \in {NoErr, DriverErr("query"), DriverErr("open")}
         /\ cb.err = NoErr =>
              /\ N("query") = ddl.tasks + 1
              /\ ddl.exists /\ ddl.indexes = ddl.tasks
         /\ cb.err = DriverErr("query") =>
              /\ stepErr = cb.err
              /\ Len(log) = 3 * N("query") + 1
              /\ N("query") >= 2 => ddl.exists /\ ddl.indexes = N("query") - 2
         /\ cb.err = DriverErr("open") =>
              /\ Len(log) = 3 * N("query") + 2
              /\ N("query") >= 1 => ddl.exists /\ ddl.indexes = N("query") - 1

\* C15 witness: the table was created, the first of two index statements
\* failed, and the caller got the error with the table left in place.
C15_Witness ==
  /\ op = "createTable" /\ CallbackRan /\ ddl.tasks = 2
  /\ cb.err = DriverErr("query")
  /\ N("query") = 2
  /\ ddl.exists /\ ddl.indexes = 0

\* C16: dropTable issues at most one DROP TABLE; the caller gets success
\* when the statement succeeded (the table is gone) and when its error says
\* that the object does not exist (42704), and gets the error in every other
\* case.
C16_DropTable ==
  op = "dropTable" =>
    /\ N("query") <= 1
    /\ CallbackRan =>
         /\ cb.count = 1
         /\ N("query") = 0 => cb.err = DriverErr("open")
         /\ N("query") = 1 =>
              /\ stepErr = NoErr => cb.err = NoErr /\ ~ddl.exists
              /\ Includes42704(stepErr) => cb.err = NoErr
              /\ (stepErr # NoErr /\ ~Includes42704(stepErr)) => cb.err = stepErr

\* C16 witness: the table did not exist, the driver said so, and the caller
\* was told the drop succeeded.
C16_Witness ==
  /\ op = "dropTable" /\ CallbackRan
  /\ stepErr = DriverErr("42704")
  /\ cb.err = NoErr

\* A second updateOrCreate has succeeded on the identifier that the call
\* before it, also a successful updateOrCreate, found absent and stored.
SecondOfTwo ==
  /\ op = "updateOrCreate" /\ CallbackRan /\ cb.err = NoErr
  /\ prev.op = "updateOrCreate" /\ prev.ok /\ prev.absent
  /\ prev.id = data.id
  /\ prev.row # Absent

\* C17 (as claimed): of two updateOrCreate calls in sequence on an identifier
\* that was absent, the first reports isNewInstance = true and the second
\* false, and the row of that identifier then equals the data of the second
\* call.
C17_SecondCallRow ==
  SecondOfTwo =>
    /\ prev.isNewInstance
    /\ ~cb.meta.isNewInstance
    /\ Stored[data.id] = RowOfData

\* C17 (amended): the first call reports isNewInstance = true and the second
\* false, and the row of that identifier holds the value of the second call
\* for a property the second call supplies and the value stored by the first
\* call for a property it does not supply.
C17_SecondCallMerges ==
  SecondOfTwo =>
    /\ prev.isNewInstance
    /\ ~cb.meta.isNewInstance
    /\ Stored[data.id] # Absent
    /\ Stored[data.id] = IF data.a # Undef THEN data.a ELSE prev.row

\* C17 witness: the first call stored NULL, the second supplied a value and
\* the row now holds it.
C17_Witness ==
  /\ SecondOfTwo
  /\ prev.row = Null
  /\ data.a \in Vals
  /\ Stored[data.id] = data.a

DriverCalls == {"begin", "count", "select", "update", "delete", "insert",
                "commit", "rollback", "open", "query", "close"}

\* Driver calls issued whose callback has not run yet.
Outstanding ==
  (IF pc \in DriverCalls THEN 1 ELSE 0)
  + (IF conn.state = "closing" /\ pc # "close" THEN 1 ELSE 0)

\* Where a call stands in the course of a compound operation.
Phase(e) ==
  CASE e = "begin" -> 0
    [] e \in {"count", "select", "update", "delete", "insert"} -> 1
    [] e \in {"commit", "rollback"} -> 2
    [] e = "close" -> 3
    [] OTHER -> 4

\* The statements a compound operation can have issued so far.
StatementOrders ==
  CASE op = "updateOrCreate" ->
         {<<>>, <<"count">>, <<"count", "update">>, <<"count", "insert">>}
    [] op = "_replace" ->
         {<<>>, <<"select">>, <<"select", "delete">>,
          <<"select", "delete", "insert">>}
    [] OTHER ->
         {<<>>, <<"select">>, <<"select", "insert">>, <<"select", "delete">>,
          <<"select", "delete", "insert">>}

\* The error of the step that failed, once one has.
StepError == IF cb.err # NoErr THEN cb.err ELSE stepErr

\* C18: in a compound operation at most one driver call is outstanding and
\* it is the one issued last; calls are issued in the order acquire,
\* probe, branch statements, finalize, close, callback; no call is issued
\* twice; and the statement that failed is the last statement issued.
C18_OneAtATime ==
  Compound =>
    /\ Outstanding <= 1
    /\ pc \in DriverCalls => log[Len(log)].op = pc
    /\ Statements \in StatementOrders
    /\ \A i, j \in DOMAIN log :
         i < j => /\ log[i].op # log[j].op
                  /\ Phase(log[i].op) <= Phase(log[j].op)
    /\ StepError.name \in {"count", "select", "update", "delete", "insert"} =>
         Statements[Len(Statements)] = StepError.name
    /\ StepError.name = "notFound" => Statements = <<"select">>

\* C18 witness: replaceOrCreate on a caller's transaction issued SELECT and
\* DELETE, the DELETE failed, and no INSERT followed.
C18_Witness ==
  /\ op = "replaceOrCreate" /\ ~owned /\ CallbackRan
  /\ cb.err = DriverErr("delete")
  /\ Statements = <<"select", "delete">>

\* A limit or offset as a number: what is not a number counts as zero.
AsNumber(x) == IF x \in Nat THEN x ELSE 0

\* C19: with n the limit and m the offset, both taken as zero when they are
\* not numbers, and the offset being filter.offset unless that is missing or
\* zero, in which case it is filter.skip, the clause applyPagination adds is
\* empty for n = 0 and m = 0, 'FETCH FIRST n ROWS ONLY' for m = 0 only,
\* 'OFFSET m' for n = 0 only and 'LIMIT n OFFSET m' otherwise.
C19_PaginationClause ==
  pure.fn = "applyPagination" =>
    LET n == AsNumber(pure.limit)
        m == AsNumber(IF pure.offset \in {Undef, 0} THEN pure.skip
                      ELSE pure.offset)
    IN  /\ (n = 0 /\ m = 0) => pure.clause = NoClause
        /\ (n # 0 /\ m = 0) =>
             pure.clause = [text |-> "FETCH FIRST n ROWS ONLY", limit |-> n, offset |-> 0]
        /\ (n = 0 /\ m # 0) =>
             pure.clause = [text |-> "OFFSET m", limit |-> 0, offset |-> m]
        /\ (n # 0 /\ m # 0) =>
             pure.clause = [text |-> "LIMIT n OFFSET m", limit |-> n, offset |-> m]

\* C19 witness: no usable limit, no filter.offset, and filter.skip gives
\* the clause 'OFFSET m'.
C19_Witness ==
  /\ pure.fn = "applyPagination"
  /\ pure.limit = NotANumber /\ pure.offset = Undef /\ pure.skip \in 1..MaxLimit
  /\ pure.clause = [text |-> "OFFSET m", limit |-> 0, offset |-> pure.skip]

\* C20 (as claimed): for a property of type Number, String, Boolean or Date
\* and a value of that type that is not null, fromColumnValue of
\* toColumnValue of the value is the value.
C20_RoundTrip ==
  (/\ pure.fn = "fromColumnValue"
   /\ pure.prop.type \in {"Number", "String", "Boolean", "Date"}
   /\ pure.val.t # "null") => pure.back = pure.val

\* Number of placeholders in a text.
Placeholders(text) == Cardinality({i \in DOMAIN text : text[i] = "?"})

\* The parameters a value brings: its own when it is a compiled
\* sub-statement, itself otherwise.
BoundBy(value) == IF value.compiled THEN value.params ELSE <<value.v>>
TextOf(value) == IF value.compiled THEN value.sql ELSE <<"?">>

SymbolOf(operator) ==
  CASE operator = "gt" -> ">" [] operator = "gte" -> ">="
    [] operator = "lt" -> "<" [] operator = "lte" -> "<="
    [] operator = "neq" -> "!=" [] operator = "like" -> " LIKE "
    [] operator = "nlike" -> " NOT LIKE " [] operator = "between" -> " BETWEEN "
    [] operator = "inq" -> " IN " [] OTHER -> " NOT IN "

\* C21: the statement buildExpression returns has as many placeholders as
\* parameters; for a value operator it is the column, the operator and one
\* placeholder bound to the value, or the text and parameters of the value
\* when that is a compiled sub-statement, and for neq with null it is
\* 'col IS NOT NULL' without parameters; for between it is the elements
\* joined by ' AND ' without parentheses, for inq / nin the elements joined
\* by commas inside parentheses, each element a placeholder or its own text.
C21_PlaceholdersMatchParams ==
  pure.fn = "buildExpression" =>
    LET stmt == pure.stmt
        vs == pure.values
        o == pure.operator
        n == Len(vs)
        \* where the text of element i starts, after the first k pieces
        \* (one separator and the text of each element before it)
        at(i, k) == k + i
                    + Cardinality({<<j, x>> \in (1..(i - 1)) \X (1..3) :
                                     x <= Len(TextOf(vs[j]))})
    IN  /\ Placeholders(stmt.sql) = Len(stmt.params)
        /\ o \in ValueOperators =>
             IF o = "neq" /\ vs[1] = PlainValue(Null)
             THEN stmt = ParameterizedSQL(<<"col", " IS NOT NULL">>, <<>>)
             ELSE /\ stmt.sql = <<"col", SymbolOf(o)>> \o TextOf(vs[1])
                  /\ stmt.params = BoundBy(vs[1])
        /\ o \in ArrayOperators =>
             LET k == IF o = "between" THEN 2 ELSE 3
                 sep == IF o = "between" THEN " AND " ELSE ","
             IN  /\ SubSeq(stmt.sql, 1, 2) = <<"col", SymbolOf(o)>>
                 /\ o # "between" =>
                      stmt.sql[3] = "(" /\ stmt.sql[Len(stmt.sql)] = ")"
                 /\ o = "between" => \A i \in DOMAIN stmt.sql : stmt.sql[i] \notin {"(", ")"}
                 /\ \A i \in 1..n :
                      /\ SubSeq(stmt.sql, at(i, k), at(i, k) + Len(TextOf(vs[i])) - 1)
                           = TextOf(vs[i])
                      /\ i > 1 => stmt.sql[at(i, k) - 1] = sep
                 /\ Len(stmt.params) =
                      Cardinality({<<j, x>> \in (1..n) \X (1..2) : x <= Len(BoundBy(vs[j]))})
                 /\ Cardinality({i \in DOMAIN stmt.sql : stmt.sql[i] = sep})
                      = IF n = 0 THEN 0 ELSE n - 1

\* C21 witness: inq over a plain value and a compiled sub-statement with two
\* parameters of its own gives three placeholders and three parameters.
C21_Witness ==
  /\ pure.fn = "buildExpression" /\ pure.operator = "inq"
  /\ Len(pure.values) = 2
  /\ ~pure.values[1].compiled /\ pure.values[2].compiled
  /\ Len(pure.stmt.params) = 3
  /\ Placeholders(pure.stmt.sql) = 3

\* C22 (as claimed): escapeName puts a non-empty identifier between double
\* quotes with every double quote of the identifier doubled.
C22_EscapeNameDoubles ==
  (pure.fn = "escapeName" /\ pure.name # <<>>) =>
    LET inner == SubSeq(pure.escaped, 2, Len(pure.escaped) - 1)
    IN  /\ pure.escaped[1] = DQ /\ pure.escaped[Len(pure.escaped)] = DQ
        /\ Len(inner) = Len(pure.name)
                        + Cardinality({i \in DOMAIN pure.name : pure.name[i] = DQ})
        /\ \A i \in DOMAIN pure.name :
             LET j == i + Cardinality({h \in 1..(i - 1) : pure.name[h] = DQ})
             IN  /\ inner[j] = pure.name[i]
                 /\ pure.name[i] = DQ => inner[j + 1] = DQ

\* C23 (as claimed): a successful _replace reports metadata whose
\* isNewInstance is false, the row having existed before.
C23_ReplaceNotNew ==
  (op = "_replace" /\ CallbackRan /\ cb.err = NoErr) =>
    /\ cb.meta.set
    /\ ~cb.meta.isNewInstance

\* The identifiers that have a row.
RowsOf(t) == {i \in Ids : t[i] # Absent}

\* C24 (as claimed): _replace issues its DELETE only when the probe returned
\* exactly one row, and a successful _replace leaves the number of rows of
\* the table as it was.
C24_ReplaceExactlyOne ==
  op = "_replace" =>
    /\ N("delete") > 0 => Len(probe) = 1
    /\ (CallbackRan /\ cb.err = NoErr) =>
         Cardinality(RowsOf(Stored)) = Cardinality(RowsOf(before))

DecimalScaleOnly ==
  \/ /\ ddl.p.odbcType = "DECIMAL"
     /\ ddl.p.dataScale > 0 /\ ddl.p.dataPrecision = 0
  \/ /\ ddl.p.odbcType = "none" /\ ddl.p.dataType = "DECIMAL"
     /\ ddl.p.scale > 0 /\ ddl.p.precision = 0

BothReturned == \A i \in Callers : procs.p[i].pc \in {"done", "thrown"}

\* The callers that were told isNewInstance = true.
ReportedNew == {i \in Callers : procs.p[i].reported = "new"}

\* C26: when two updateOrCreate calls for the same, initially absent
\* identifier run concurrently, each on its own connection at read committed
\* against a table with a primary key, then in every interleaving of their
\* probe and write steps at most one of them reports isNewInstance = true,
\* the table never has two rows for the identifier, and once both have
\* returned the table has exactly one row for it (in the runs where no driver
\* call failed for a reason other than the key).
C26_ConcurrentUpdateOrCreate ==
  /\ Cardinality(ReportedNew) <= 1
  /\ Len(procs.rows) <= 1
  /\ BothReturned /\ ~procs.faults => Len(procs.rows) = 1

\* Both callers probed before either had committed, so both sent the INSERT:
\* one was told isNewInstance = true, the other got the key violation.
C26_Witness ==
  /\ BothReturned /\ ~procs.faults
  /\ \A i \in Callers : procs.p[i].CNT = 0
  /\ \E i \in Callers : /\ procs.p[i].reported = "new"
                        /\ procs.p[Other(i)].reported = "error"
                        /\ procs.p[Other(i)].err = "duplicate"
  /\ Len(procs.rows) = 1

\* The open calls of connect that are outstanding.
OutstandingOpens == {k \in DOMAIN client.opens : client.opens[k] = "pending"}

\* C27: dataSource.connecting is true exactly while at least one open call
\* issued by connect is outstanding (also when several connect calls overlap);
\* once an open has completed, dataSource.connected tells whether the open
\* that completed last succeeded, and 'connected' has been emitted once per
\* successful open and never otherwise.
C27_FlagsTrackConnect ==
  /\ dataSource.connecting <=> OutstandingOpens # {}
  /\ client.last # 0 => (dataSource.connected <=> client.opens[client.last] = "ok")
  /\ client.emitted = Cardinality({k \in DOMAIN client.opens : client.opens[k] = "ok"})

\* C28: when executeSQL takes a limit and/or an offset out of the SQL text
\* (useLimitOffset off) and the query succeeds, the callback gets the rows the
\* pagination describes: rows offset .. offset+limit-1 of the driver's result
\* when both are set, the first limit rows when only a limit is set, and all
\* rows from position offset onward when only an offset is set.
C28_PaginatedRows ==
  /\ op = "executeSQL" /\ pc = "done" /\ cb.err = NoErr
  /\ ~settings.useLimitOffset
  /\ sql.limit # 0 \/ sql.offset # 0
  => cb.rows =
       CASE sql.limit # 0 /\ sql.offset # 0 ->
              Slice(DriverRows(Connection), sql.offset, sql.offset + sql.limit)
         [] sql.limit # 0 -> Slice(DriverRows(Connection), 0, sql.limit)
         [] OTHER -> Slice(DriverRows(Connection), sql.offset,
                           Len(DriverRows(Connection)))

====
